---- MODULE Spec2Model ----
(***************************************************************************)
(* Model of EIA_US_Refinery_Utilization.py: a single-threaded batch job    *)
(* that fetches one weekly series per region, normalises it, adds 4-week   *)
(* rolling statistics, collects the usable regions into the ordered        *)
(* mapping dfs, and renders a dashboard from that mapping.                 *)
(*                                                                         *)
(* Encoding of values.  Dates are positive integers (weeks); the           *)
(* comparison cutoff '2022-01-01' is the date Cutoff.  Utilization values  *)
(* are the integers 0..MaxVal.  A float column's missing value is NaN; a   *)
(* date column's missing value is NaT.  Rolling means are exact rationals  *)
(* [num, den] in lowest terms; a rolling standard deviation is kept as its *)
(* square (the sample variance, a rational), which determines it.  A       *)
(* missing rolling value is Absent.                                        *)
(***************************************************************************)
EXTENDS Integers, Sequences, FiniteSets, TLC

\* ---------------------------------------------------------------- bounds
MaxData == 2       \* rows per response in the whole-pipeline specification
MaxRows == 4       \* rows per response in the single-series specification
MaxVal  == 1       \* largest utilization value of the single-series spec

\* ------------------------------------------------------ program constants
series_ids == << "U.S. Total", "PADD 1", "PADD 2", "PADD 3", "PADD 4", "PADD 5" >>
window     == 4    \* rolling(window=4)
Cutoff     == 2    \* '2022-01-01' on the model's date axis
MaxPanels  == 6    \* if i < 6
Highlight  == "PADD 3"

NumRegions == Len(series_ids)
Names      == { series_ids[i] : i \in 1..NumRegions }

\* -------------------------------------------------------- value encoding
NaN    == -1       \* float('nan') in a numeric column
NaT    == 0        \* pandas.NaT in a datetime column
None   == -1       \* a JSON null in a raw field
BadText == -2      \* a raw string that parses neither as a number nor as a date
Absent == [num |-> 0, den |-> 0]     \* NaN in a rolling column

RECURSIVE Gcd(_, _)
Gcd(a, b) == IF b = 0 THEN a ELSE Gcd(b, a % b)

\* the exact quotient n / d (n >= 0, d > 0) in lowest terms
Frac(n, d) ==
    LET g == Gcd(n, d) IN [num |-> n \div g, den |-> d \div g]

RECURSIVE SumSeq(_)
SumSeq(s) == IF s = << >> THEN 0 ELSE Head(s) + SumSeq(Tail(s))

Square(s) == [ i \in 1..Len(s) |-> s[i] * s[i] ]

\* ------------------------------------------------------------- responses
\* What requests.get(url).json() can give for one region:
\*   exception - the call or the JSON decoding raises;
\*   malformed - a JSON value without 'response' or without 'response.data'
\*               (what the API answers to a bad credential);
\*   data      - response.data is a list of {period, value} records.
RawRecords(periods, values) == [ period : periods, value : values ]

FailResponses == { [kind |-> "exception"], [kind |-> "malformed"] }

DataResponse(d) == [kind |-> "data", data |-> d]

\* whole-pipeline inputs: a date before the cutoff and the cutoff itself, an
\* unparseable period, a missing, an unparseable and a numeric value; as the
\* queried series is weekly, a response carries one record per period
PipelineRecords == RawRecords({BadText, Cutoff - 1, Cutoff}, {None, BadText, 0})

DistinctPeriods(d) == \A i, j \in 1..Len(d) : i # j => d[i].period # d[j].period

PipelineData ==
    UNION { { d \in [1..n -> PipelineRecords] : DistinctPeriods(d) } : n \in 0..MaxData }

\* single-series inputs: missing periods, the two dates around the cutoff
\* (repeated in any list of three rows), unparseable and numeric values
SeriesRecords == RawRecords({None, Cutoff - 1, Cutoff}, {BadText} \cup 0..MaxVal)

\* -------------------------------------------------------- normalisation
\* pd.to_datetime: a date string parses to its date, a null to NaT; any other
\* text raises (DateRaises).
to_datetime(p) == IF p = None THEN NaT ELSE p

DateRaises(data) == \E i \in 1..Len(data) : data[i].period = BadText

\* pd.to_numeric(errors='coerce'): a number parses, everything else is NaN
to_numeric(v) == IF v >= 0 THEN v ELSE NaN

\* pd.DataFrame(data)[['period', 'value']] with the columns renamed and converted
DataFrame(data) ==
    [ i \in 1..Len(data) |->
        [ Date |-> to_datetime(data[i].period),
          Utilization_Rate |-> to_numeric(data[i].value) ] ]

RemoveAt(s, i) == SubSeq(s, 1, i - 1) \o SubSeq(s, i + 1, Len(s))

\* ascending date order with NaT last (na_position='last')
Precedes(a, b) == a # NaT /\ (b = NaT \/ a < b)

\* mutant of sort_values: the rows stay in the order of the response
sort_values_unsorted(rows) == { rows }

\* df.sort_values('Date'): the default sort is not stable, so rows of equal date
\* may come out in any order; every date-ordered arrangement is possible.
RECURSIVE sort_values(_)
sort_values(rows) ==
    IF rows = << >> THEN { << >> }
    ELSE UNION { { << rows[i] >> \o rest : rest \in sort_values(RemoveAt(rows, i)) } :
                 i \in { k \in 1..Len(rows) :
                           \A j \in 1..Len(rows) : ~ Precedes(rows[j].Date, rows[k].Date) } }

NotNa(r) == r.Utilization_Rate # NaN

\* .dropna(subset=['Utilization_Rate'])
dropna(rows) == SelectSeq(rows, NotNa)

\* ------------------------------------------------------------- analytics
Column(rows) == [ i \in 1..Len(rows) |-> rows[i].Utilization_Rate ]

\* the trailing window ending at row i (1-based), when it has `window` rows
Window(col, i) == SubSeq(col, i - window + 1, i)

HasNaN(w) == \E k \in 1..Len(w) : w[k] = NaN

\* mutant of rolling(window=4).mean(): min_periods=1, the mean of the rows at hand
rolling_mean_min_periods_1(col) ==
    [ i \in 1..Len(col) |->
        LET w == SubSeq(col, IF i < window THEN 1 ELSE i - window + 1, i)
        IN  IF HasNaN(w) THEN Absent ELSE Frac(SumSeq(w), Len(w)) ]

\* Series.rolling(window=4).mean(): min_periods defaults to the window size
rolling_mean(col) ==
    [ i \in 1..Len(col) |->
        IF i < window \/ HasNaN(Window(col, i)) THEN Absent
        ELSE Frac(SumSeq(Window(col, i)), window) ]

\* Series.rolling(window=4).std(): the sample standard deviation (ddof=1),
\* kept as its square  (n*sum(x^2) - sum(x)^2) / (n*(n-1))
rolling_std(col) ==
    [ i \in 1..Len(col) |->
        IF i < window \/ window < 2 \/ HasNaN(Window(col, i)) THEN Absent
        ELSE LET w == Window(col, i)
                 s == SumSeq(w)
             IN  Frac(window * SumSeq(Square(w)) - s * s, window * (window - 1)) ]

\* df['4W_MA'] = ...; df['Volatility'] = ...
Analyse(rows) ==
    LET col == Column(rows)
        ma  == rolling_mean(col)
        sd  == rolling_std(col)
    IN  [ i \in 1..Len(rows) |->
            [ Date |-> rows[i].Date,
              Utilization_Rate |-> rows[i].Utilization_Rate,
              W4_MA |-> ma[i],
              Volatility |-> sd[i] ] ]

\* ------------------------------------------------------------------ log
Entry(level, event, name) == [level |-> level, event |-> event, name |-> name]

\* ------------------------------------------------------- the fetch loop
\* dfs is the insertion-ordered dict: a sequence of [name, df] items.
Keys(d) == { d[i].name : i \in 1..Len(d) }

Get(d, name) == CHOOSE i \in 1..Len(d) : d[i].name = name

\* dfs[name] = df
SetItem(d, name, df) ==
    IF name \in Keys(d)
    THEN [ d EXCEPT ![Get(d, name)] = [name |-> name, df |-> df] ]
    ELSE Append(d, [name |-> name, df |-> df])

\* if not data
not_data(data) == data = << >>

\* mutant of `if df.empty`: the check never fires
df_empty_never(df) == FALSE

\* if df.empty
df_empty(df) == df = << >>

\* mutants of `if not dfs`: the check never fires / always fires
not_dfs_never(d) == FALSE

not_dfs_always(d) == TRUE

\* if not dfs
not_dfs(d) == d = << >>

\* 'response' not in response or 'data' not in response['response']
LacksFields(resp) == resp.kind = "malformed"

\* mutant of the except clause: the error is logged and raised again
ExceptHandlerReraise(d, lg, name) ==
    [dfs |-> d, log |-> Append(lg, Entry("ERROR", "error_processing", name)), go |-> "raise"]

\* except Exception as e: logger.error(...); continue
ExceptHandler(d, lg, name) ==
    [dfs |-> d, log |-> Append(lg, Entry("ERROR", "error_processing", name)), go |-> "continue"]

\* mutant of the try block: a series that is empty after cleaning leaves the
\* previous iteration's df in place, and that is stored under this region
ProcessDataStale(d, lg, name, data) ==
    { IF df = << >> /\ d = << >>
      THEN [dfs |-> d,
            log |-> Append(lg, Entry("WARNING", "empty_after_cleaning", name)),
            go |-> "continue"]
      ELSE [dfs |-> SetItem(d, name, IF df = << >> THEN d[Len(d)].df ELSE Analyse(df)),
            log |-> Append(lg, Entry("INFO", "processed", name)),
            go |-> "continue"]
      : df \in { dropna(s) : s \in sort_values(DataFrame(data)) } }

\* the body of the try block once response.data is a non-empty list that parses
ProcessData(d, lg, name, data) ==
    { IF df_empty(df)
      THEN [dfs |-> d,
            log |-> Append(lg, Entry("WARNING", "empty_after_cleaning", name)),
            go |-> "continue"]
      ELSE [dfs |-> SetItem(d, name, Analyse(df)),
            log |-> Append(lg, Entry("INFO", "processed", name)),
            go |-> "continue"]
      : df \in { dropna(s) : s \in sort_values(DataFrame(data)) } }

\* One iteration of the loop for region `name` whose request was answered by
\* `resp`: the possible values of (dfs, log) after it, and how the iteration ends.
LoopBody(d, lg, name, resp) ==
    LET lg0 == Append(lg, Entry("INFO", "fetching", name))
    IN  IF resp.kind = "exception"
        THEN { ExceptHandler(d, lg0, name) }
        ELSE IF LacksFields(resp)
        THEN { ExceptHandler(d, Append(lg0, Entry("ERROR", "api_call_failed", name)), name) }
        ELSE IF not_data(resp.data)
        THEN { [dfs |-> d, log |-> Append(lg0, Entry("WARNING", "no_data", name)),
                go |-> "continue"] }
        ELSE IF DateRaises(resp.data)
        THEN { ExceptHandler(d, lg0, name) }
        ELSE ProcessData(d, lg0, name, resp.data)

\* ---------------------------------------------------------------- state
VARIABLES
    pc,           \* where the script is: fetch, trend, stack, bar, save, done, aborted, crashed
    idx,          \* 1-based position of the fetch loop in series_ids
    dfs,          \* the region -> series mapping, in insertion order
    log,          \* the lines written through logger
    calls,        \* the regions requests.get was called for, in order
    fig,          \* whether plt.figure has been created
    axes,         \* the trend panels added
    stack_lines,  \* the lines plotted on the comparison panel ax_stack
    legend,       \* the legend entries of ax_stack
    bars,         \* the bars of the volatility chart ax_bar
    saved         \* how many times refinery_dashboard.png has been written

vars == << pc, idx, dfs, log, calls, fig, axes, stack_lines, legend, bars, saved >>

render == << fig, axes, stack_lines, legend, bars, saved >>

Init ==
    /\ pc = "fetch"
    /\ idx = 1
    /\ dfs = << >>
    /\ log = << Entry("INFO", "starting_fetch", "") >>
    /\ calls = << >>
    /\ fig = FALSE
    /\ axes = << >>
    /\ stack_lines = << >>
    /\ legend = << >>
    /\ bars = << >>
    /\ saved = 0

\* ------------------------------------------------------------- actions
\* mutant of the loop: a region whose iteration logged an error is fetched again
IterateRetry(resp) ==
    /\ pc = "fetch"
    /\ idx <= NumRegions
    /\ \E out \in LoopBody(dfs, log, series_ids[idx], resp) :
         /\ dfs' = out.dfs
         /\ log' = out.log
         /\ pc' = IF out.go = "continue" THEN "fetch" ELSE "crashed"
         /\ idx' = IF out.log[Len(out.log)].level = "ERROR" THEN idx ELSE idx + 1
    /\ calls' = Append(calls, series_ids[idx])
    /\ UNCHANGED render

\* for name, series_id in series_ids.items(): one request, one pass of the body
Iterate(resp) ==
    /\ pc = "fetch"
    /\ idx <= NumRegions
    /\ \E out \in LoopBody(dfs, log, series_ids[idx], resp) :
         /\ dfs' = out.dfs
         /\ log' = out.log
         /\ pc' = IF out.go = "continue" THEN "fetch" ELSE "crashed"
    /\ calls' = Append(calls, series_ids[idx])
    /\ idx' = idx + 1
    /\ UNCHANGED render

\* the whole-pipeline loop step
FetchRegion ==
    \/ \E resp \in FailResponses : Iterate(resp)
    \/ \E d \in PipelineData : Iterate(DataResponse(d))

\* if not dfs: logger.error(...); raise SystemExit("No data to plot.")
Abort ==
    /\ pc = "fetch"
    /\ idx > NumRegions
    /\ not_dfs(dfs)
    /\ log' = Append(log, Entry("ERROR", "no_data_processed", ""))
    /\ pc' = "aborted"
    /\ UNCHANGED << idx, dfs, calls, render >>

\* fig = plt.figure(...); gs = fig.add_gridspec(3, 3)
CreateFigure ==
    /\ pc = "fetch"
    /\ idx > NumRegions
    /\ ~ not_dfs(dfs)
    /\ log' = Append(log, Entry("INFO", "generating_dashboard", ""))
    /\ fig' = TRUE
    /\ pc' = "trend"
    /\ UNCHANGED << idx, dfs, calls, axes, stack_lines, legend, bars, saved >>

Min(a, b) == IF a < b THEN a ELSE b

Range(s) == { s[i] : i \in 1..Len(s) }

\* Plot 1-6: one trend panel per item of dfs, at most six
TrendPanels ==
    /\ pc = "trend"
    /\ LET n == Min(Len(dfs), MaxPanels)
       IN  /\ axes' = [ i \in 1..n |-> [title |-> dfs[i].name, rows |-> dfs[i].df] ]
           /\ log' = log \o [ i \in 1..n |-> Entry("INFO", "trend_plot", dfs[i].name) ]
    /\ pc' = "stack"
    /\ UNCHANGED << idx, dfs, calls, fig, stack_lines, legend, bars, saved >>

\* recent_df = df[df['Date'] >= '2022-01-01']  (a comparison with NaT is False)
InRange(r) == r.Date # NaT /\ r.Date >= Cutoff

\* mutant of the date filter: strictly after the cutoff
AfterCutoff(r) == r.Date # NaT /\ r.Date > Cutoff

recent_df_strict(df) == SelectSeq(df, AfterCutoff)

recent_df(df) == SelectSeq(df, InRange)

\* mutant of the comparison loop: the filtered frame is stored back into dfs
ComparisonPanelInPlace ==
    /\ pc = "stack"
    /\ dfs' = [ i \in 1..Len(dfs) |-> [name |-> dfs[i].name, df |-> recent_df(dfs[i].df)] ]
    /\ stack_lines' =
         [ i \in 1..Len(dfs) |->
             [ label |-> dfs[i].name,
               rows |-> recent_df(dfs[i].df),
               color |-> i,
               linewidth |-> IF dfs[i].name = Highlight THEN "2.5" ELSE "1.5" ] ]
    /\ legend' = [ i \in 1..Len(dfs) |-> dfs[i].name ]
    /\ log' = Append(log, Entry("INFO", "stack_plot", ""))
    /\ pc' = "bar"
    /\ UNCHANGED << idx, calls, fig, axes, bars, saved >>

\* Plot 7: every item of dfs as one line of the comparison panel, then the legend
ComparisonPanel ==
    /\ pc = "stack"
    /\ stack_lines' =
         [ i \in 1..Len(dfs) |->
             [ label |-> dfs[i].name,
               rows |-> recent_df(dfs[i].df),
               color |-> i,
               linewidth |-> IF dfs[i].name = Highlight THEN "2.5" ELSE "1.5" ] ]
    /\ legend' = [ i \in 1..Len(dfs) |-> dfs[i].name ]
    /\ log' = Append(log, Entry("INFO", "stack_plot", ""))
    /\ pc' = "bar"
    /\ UNCHANGED << idx, dfs, calls, fig, axes, bars, saved >>

Defined(q) == q # Absent

\* df['Volatility'] with the missing entries skipped, as mean() and std() do
VolatilitySamples(df) == SelectSeq([ i \in 1..Len(df) |-> df[i].Volatility ], Defined)

\* Plot 8: one bar per item of dfs; its height is the mean and its error bar the
\* standard deviation of the samples
VolatilityBar ==
    /\ pc = "bar"
    /\ bars' = [ i \in 1..Len(dfs) |->
                   [ label |-> dfs[i].name, samples |-> VolatilitySamples(dfs[i].df) ] ]
    /\ log' = Append(log, Entry("INFO", "bar_chart", ""))
    /\ pc' = "save"
    /\ UNCHANGED << idx, dfs, calls, fig, axes, stack_lines, legend, saved >>

\* plt.savefig('refinery_dashboard.png', ...); plt.show()
SaveFig ==
    /\ pc = "save"
    /\ saved' = saved + 1
    /\ log' = Append(log, Entry("INFO", "saved", ""))
    /\ pc' = "done"
    /\ UNCHANGED << idx, dfs, calls, fig, axes, stack_lines, legend, bars >>

Render == CreateFigure \/ TrendPanels \/ ComparisonPanel \/ VolatilityBar \/ SaveFig

Next == FetchRegion \/ Abort \/ Render

Spec == Init /\ [][Next]_vars

\* Once the loop is over the script only computes and draws: each rendering
\* step that can run does run.  (A request may block for ever - no timeout is
\* set - so nothing is assumed of the loop.)
FairSpec == Spec /\ WF_vars(Render)

\* --------------------------------------------- single-series specification
\* Runs in which only the first region can return data: its response is drawn
\* from the larger single-series inputs, the other requests are rejected.
FetchSeries ==
    /\ idx = 1
    /\ \/ \E resp \in FailResponses : Iterate(resp)
       \/ \E n \in 0..MaxRows : \E d \in [1..n -> SeriesRecords] : Iterate(DataResponse(d))

FetchRejected == idx > 1 /\ Iterate([kind |-> "malformed"])

NextSeries == FetchSeries \/ FetchRejected \/ Abort \/ Render

SpecSeries == Init /\ [][NextSeries]_vars

\* ===================================================== checked properties
N == NumRegions

LoopEnded == idx > N

Logged(level, event, name) == \E i \in 1..Len(log) : log[i] = Entry(level, event, name)

ErrorLogged(name) == Logged("ERROR", "error_processing", name)

WarningLogged(name) ==
    Logged("WARNING", "no_data", name) \/ Logged("WARNING", "empty_after_cleaning", name)

Titles(panels) == { panels[i].title : i \in 1..Len(panels) }

Labels(items) == { items[i].label : i \in 1..Len(items) }

NothingRendered ==
    /\ ~ fig
    /\ axes = << >>
    /\ stack_lines = << >>
    /\ legend = << >>
    /\ bars = << >>
    /\ saved = 0

\* every response the whole-pipeline specification can feed to one iteration
PipelineInputs == FailResponses \cup { DataResponse(d) : d \in PipelineData }

\* the responses that make an iteration fail: no usable JSON, missing fields,
\* or an exception while the rows are processed
FailureInputs == { r \in PipelineInputs : r.kind # "data" \/ DateRaises(r.data) }

\* the responses whose rows all parse as dates and none of whose values is a
\* number: no rows at all, or only missing and unparseable values
EmptyInputs ==
    { r \in PipelineInputs :
         /\ r.kind = "data"
         /\ ~ DateRaises(r.data)
         /\ \A i \in 1..Len(r.data) : r.data[i].value \in {None, BadText} }

\* C1: when the loop has ended with no region in the mapping, nothing is ever
\* rendered: no figure, no panel, no line, no bar, and the image is not written;
\* the run is at the abort check or has aborted.
C1_NoRenderWithoutData ==
    (LoopEnded /\ dfs = << >>) => (NothingRendered /\ pc \in {"fetch", "aborted"})

C1_Witness ==
    /\ pc = "aborted"
    /\ calls = series_ids
    /\ dfs = << >>
    /\ ErrorLogged("U.S. Total")
    /\ ~ Logged("ERROR", "api_call_failed", "U.S. Total")
    /\ Logged("ERROR", "api_call_failed", "PADD 1")
    /\ Logged("WARNING", "no_data", "PADD 2")
    /\ Logged("WARNING", "empty_after_cleaning", "PADD 3")

\* C2: a failing iteration skips only its region.  For the region at hand every
\* failing response leaves the mapping as it was, logs an error for that region
\* and lets the loop go on; a region with an error logged is never in the
\* mapping; and the run never leaves the loop before all regions were requested.
C2_FailureSkipsOnlyThatRegion ==
    /\ pc # "crashed"
    /\ (pc = "fetch" /\ idx <= N) =>
          \A resp \in FailureInputs :
             \A out \in LoopBody(dfs, log, series_ids[idx], resp) :
                /\ out.dfs = dfs
                /\ out.go = "continue"
                /\ out.log[Len(out.log)] = Entry("ERROR", "error_processing", series_ids[idx])
    /\ \A k \in 1..N :
          ErrorLogged(series_ids[k]) => (series_ids[k] \notin Keys(dfs) /\ idx > k)
    /\ (pc # "fetch" \/ LoopEnded) => calls = series_ids

C2_Witness ==
    /\ pc = "done"
    /\ \E k \in 1..N : \E j \in (k + 1)..N :
          /\ ErrorLogged(series_ids[k])
          /\ Logged("ERROR", "api_call_failed", series_ids[k])
          /\ series_ids[j] \in Keys(dfs)

\* C3 (as stated): every stored series has strictly increasing dates and no
\* missing Utilization_Rate.  Rows whose period was null carry no date and are
\* left out of the comparison.
C3_StrictlyIncreasingDates ==
    \A n \in 1..Len(dfs) :
       LET df == dfs[n].df
       IN  /\ \A i \in 1..Len(df) : df[i].Utilization_Rate # NaN
           /\ \A i, j \in 1..Len(df) :
                 (i < j /\ df[i].Date # NaT /\ df[j].Date # NaT) => df[i].Date < df[j].Date

\* C3 (amended): every stored series is in date order - no row has a date
\* earlier than the row before it, rows without a date come last - and has no
\* missing Utilization_Rate.  Rows of a repeated period are all kept.
C3_DatesInOrderNoMissing ==
    \A n \in 1..Len(dfs) :
       LET df == dfs[n].df
       IN  /\ \A i \in 1..Len(df) : df[i].Utilization_Rate # NaN
           /\ \A i \in 1..(Len(df) - 1) :
                 \/ df[i + 1].Date = NaT
                 \/ (df[i].Date # NaT /\ df[i].Date <= df[i + 1].Date)

C3_Witness ==
    \E n \in 1..Len(dfs) :
       LET df == dfs[n].df
       IN  /\ Len(df) = 3
           /\ df[1].Date = df[2].Date
           /\ df[1].Date < Cutoff
           /\ df[3].Date = Cutoff
           /\ pc = "done"

C5_EmptyRegionAbsent ==
    /\ (pc = "fetch" /\ idx <= N) =>
          \A resp \in EmptyInputs :
             \A out \in LoopBody(dfs, log, series_ids[idx], resp) :
                /\ out.dfs = dfs
                /\ out.go = "continue"
                /\ out.log[Len(out.log)].level = "WARNING"
                /\ out.log[Len(out.log)].name = series_ids[idx]
    /\ \A n \in 1..Len(dfs) : dfs[n].df # << >>
    /\ LET shown == Titles(axes) \cup Labels(stack_lines) \cup Range(legend) \cup Labels(bars)
           keys  == Keys(dfs)
       IN  /\ shown \subseteq keys
           /\ \A k \in 1..N :
                 WarningLogged(series_ids[k]) =>
                    (series_ids[k] \notin keys /\ series_ids[k] \notin shown)
    /\ pc = "aborted" => dfs = << >>

C5_Witness ==
    /\ pc = "done"
    /\ \E k, j \in 1..N :
          /\ Logged("WARNING", "no_data", series_ids[k])
          /\ Logged("WARNING", "empty_after_cleaning", series_ids[j])
    /\ Labels(bars) # {}

C7_Safety ==
    /\ saved <= 1
    /\ saved = 1 => (calls = series_ids /\ pc = "done" /\ fig)
    /\ (LoopEnded /\ dfs # << >>) =>
          /\ pc \notin {"aborted", "crashed"}
          /\ pc = "done" =>
                /\ saved = 1
                /\ Len(axes) = Len(dfs)
                /\ Len(stack_lines) = Len(dfs)
                /\ Len(bars) = Len(dfs)
    /\ pc \in {"trend", "stack", "bar", "save", "done"} => (LoopEnded /\ dfs # << >>)

\* C7: if the loop ends with at least one region in the mapping, the run goes
\* on to render and reaches its normal end with the image written once, after
\* all six requests; it never aborts.
C7_RendersOnceAfterAllRegions ==
    /\ []C7_Safety
    /\ (LoopEnded /\ dfs # << >>) ~> (pc = "done" /\ saved = 1)

C7_Witness == pc = "done" /\ saved = 1 /\ Len(dfs) = 1 /\ calls = series_ids

\* C8: once the loop has ended, no step changes the mapping.
C8_MappingFrozenAfterLoop == [][ LoopEnded => dfs' = dfs ]_vars

C8_Witness ==
    /\ pc = "done"
    /\ \E n \in 1..Len(dfs) :
          /\ stack_lines[n].rows # [ i \in 1..Len(dfs[n].df) |-> dfs[n].df[i] ]
          /\ bars[n].label = dfs[n].name

\* C9: the requests made so far are exactly the first idx-1 configured regions
\* in configured order, one each; when the loop is over all six were requested
\* once, whatever failed on the way.
C9_OneCallPerRegionInOrder ==
    /\ Len(calls) = idx - 1
    /\ Len(calls) <= N
    /\ \A i \in 1..Len(calls) : calls[i] = series_ids[i]
    /\ pc # "fetch" => calls = series_ids

C9_Witness ==
    /\ pc = "done"
    /\ calls = << "U.S. Total", "PADD 1", "PADD 2", "PADD 3", "PADD 4", "PADD 5" >>
    /\ ErrorLogged("PADD 1")
    /\ ErrorLogged("PADD 2")

\* what mapping d holds for `name`: << df >> when stored, << >> when absent
ItemOf(d, name) == IF name \in Keys(d) THEN << d[Get(d, name)].df >> ELSE << >>

\* what each response leaves for a region when the mapping and the log are empty
Alone ==
    [ name \in Names |->
        [ resp \in PipelineInputs |->
            { ItemOf(out.dfs, name) : out \in LoopBody(<< >>, << >>, name, resp) } ] ]

\* C10: what an iteration leaves in the mapping for its region depends on that
\* region's response alone.  Whatever the earlier regions left in the mapping
\* and the log, each response gives the region at hand the same possible
\* results as it does on an empty mapping, and leaves every other region's
\* item as it was.
C10_RegionIndependent ==
    (pc = "fetch" /\ idx <= N) =>
       \A resp \in PipelineInputs :
          LET name  == series_ids[idx]
              here  == LoopBody(dfs, log, name, resp)
          IN  /\ { ItemOf(out.dfs, name) : out \in here } = Alone[name][resp]
              /\ \A out \in here :
                    \A q \in Names \ {name} : ItemOf(out.dfs, q) = ItemOf(dfs, q)

C10_Witness ==
    /\ pc = "done"
    /\ Len(dfs) = 3
    /\ dfs[1].df = dfs[3].df
    /\ dfs[1].df # dfs[2].df
    /\ dfs[1].name = "U.S. Total"
    /\ dfs[3].name = "PADD 5"
    /\ ErrorLogged("PADD 1")
    /\ WarningLogged("PADD 3")

====
